---- MODULE Spec2Model ----
(***************************************************************************)
(* Model of lightllm/models/llava/llava_visual.py : LlavaVisionModel.      *)
(*                                                                         *)
(* The adapter object is the record `self`; `self.attrs` is the set of     *)
(* attributes assigned so far (none after __init__).  Each method is one   *)
(* action (LoadModel, LoadHfModel, LoadBinModel, Cuda, Encode), enabled in *)
(* every state as the methods are callable on every adapter, and built     *)
(* from an operator that carries the name of the method it translates.     *)
(* `ret` holds what the most recent call returned or raised, `lastOp` and  *)
(* `args` name that call, `again` tells that the call before it was an     *)
(* encode call that returned ranges.  `shm` is the shared memory the       *)
(* upstream component fills: per uuid nothing, bytes that are no image, an *)
(* image the processor rejects, or an image of some number of tiles.       *)
(*                                                                         *)
(* Strings that the code searches or rewrites (checkpoint keys, file       *)
(* names) are sequences of fragments; the string is their concatenation.   *)
(* The fragments used below are chosen so that an occurrence of a searched *)
(* pattern in the string is always an occurrence in the fragment sequence. *)
(*                                                                         *)
(* The vision tower, the image processor and the tensor library are        *)
(* external: a tensor is the record of where it came from, its dtype and   *)
(* its device; a batch is the sequence of its rows.                        *)
(***************************************************************************)
EXTENDS Integers, Sequences, FiniteSets, TLC

VARIABLES self, shm, lastOp, args, ret, again

vars == <<self, shm, lastOp, args, ret, again>>

\* ---------------------------------------------------------------- bounds
MaxImages == 2          \* longest sequence passed to encode
MaxTiles == 2           \* most tiles one image preprocesses to
NumHiddenStates == 3    \* hidden states the tower returns per forward call
SeqLen == 3             \* tokens per hidden state (token 0 is the class token)

\* ------------------------------------------------- python string helpers
\* s.startswith(p)
StartsWith(s, p) == Len(s) >= Len(p) /\ SubSeq(s, 1, Len(p)) = p

\* s.endswith(p)
EndsWith(s, p) == Len(s) >= Len(p) /\ SubSeq(s, Len(s) - Len(p) + 1, Len(s)) = p

\* p in s
Contains(s, p) == \E i \in 1..(Len(s) - Len(p) + 1) : SubSeq(s, i, i + Len(p) - 1) = p

\* s.replace(old, new): every non-overlapping occurrence, leftmost first
RECURSIVE Replace(_, _, _)
Replace(s, old, new) ==
    IF Len(s) < Len(old) THEN s
    ELSE IF StartsWith(s, old)
         THEN new \o Replace(SubSeq(s, Len(old) + 1, Len(s)), old, new)
         ELSE <<Head(s)>> \o Replace(Tail(s), old, new)

\* d[k] = v on a dict
Put(d, k, v) == [x \in (DOMAIN d) \cup {k} |-> IF x = k THEN v ELSE d[x]]

\* config.get(k, default)
Get(config, k, default) == IF k \in DOMAIN config THEN config[k] ELSE default

\* ------------------------------------------------------- string literals
Linear1 == <<"multi_modal_projector", ".", "linear_1">>
Linear2 == <<"multi_modal_projector", ".", "linear_2">>
Projector0 == <<"model", ".", "mm_projector", ".", "0">>
Projector2 == <<"model", ".", "mm_projector", ".", "2">>
ProjectorNamespace == <<"model", ".", "mm_projector">>
SafetensorsExt == <<".", "safetensors">>
BinExt == <<".", "bin">>

K0W == Projector0 \o <<".", "weight">>
K0B == Projector0 \o <<".", "bias">>
K2W == Projector2 \o <<".", "weight">>
K2B == Projector2 \o <<".", "bias">>

CanonicalKeys == {K0W, K0B, K2W, K2B}

\* ------------------------------------------------------ weight directory
\* A weight file: its name and the tensor keys it holds, in file order.
File(name, keys) == [name |-> name, keys |-> keys]

PrefixedFile ==
    File(<<"model-prefixed">> \o SafetensorsExt,
         << <<"model", ".">> \o Linear1 \o <<".", "weight">>,
            <<"model", ".">> \o Linear1 \o <<".", "bias">>,
            <<"model", ".">> \o Linear2 \o <<".", "weight">>,
            <<"model", ".">> \o Linear2 \o <<".", "bias">> >>)

ShardOne ==
    File(<<"model-00001-of-00002">> \o SafetensorsExt,
         << Linear1 \o <<".", "weight">>, Linear1 \o <<".", "bias">>,
            Linear2 \o <<".", "weight">> >>)

ShardTwo ==
    File(<<"model-00002-of-00002">> \o SafetensorsExt,
         << Linear2 \o <<".", "bias">>,
            <<"language_", "model", ".", "lm_head", ".", "weight">> >>)

IndexFile == File(<<"model">> \o SafetensorsExt \o <<".", "index", ".", "json">>, << >>)

ProjectorBin == File(<<"mm_projector">> \o BinExt, <<K0W, K0B, K2W, K2B>>)

PartialBin ==
    File(<<"pytorch_model">> \o BinExt,
         << K0W, K0B, K2W, <<"lm_head", ".", "weight">> >>)

\* config.json: the object json.load returns; a key is present when its
\* set of values is non-empty.
MkConfig(packaged, layer, feature) ==
    LET kl == IF packaged THEN "vision_feature_layer" ELSE "mm_vision_select_layer"
        kf == IF packaged THEN "vision_feature_select_strategy" ELSE "mm_vision_select_feature"
        D == (IF packaged THEN {"text_config"} ELSE {})
             \cup (IF layer # {} THEN {kl} ELSE {})
             \cup (IF feature # {} THEN {kf} ELSE {})
    IN [k \in D |-> IF k = "text_config" THEN "llama"
                    ELSE IF k = kl THEN CHOOSE v \in layer : TRUE
                    ELSE CHOOSE v \in feature : TRUE]

\* A weight directory: its config.json and the weight files in the order
\* os.listdir returns them.
WeightDir(config, files) == [config |-> config, files |-> files]

\* The directories load is tried on: packaged and loose configs; the three
\* kinds of select_feature; select_layer left out, in range, and out of
\* range on either side; complete, partial, prefixed and mixed file sets.
WeightDirs ==
    { WeightDir(MkConfig(TRUE, {}, {}), <<ShardOne, ShardTwo, ProjectorBin>>),
      WeightDir(MkConfig(TRUE, {0}, {"patch"}), <<ShardTwo, ShardOne>>),
      WeightDir(MkConfig(TRUE, {}, {"full"}), <<PrefixedFile, IndexFile>>),
      WeightDir(MkConfig(TRUE, {NumHiddenStates}, {}), <<ShardOne, ShardTwo>>),
      WeightDir(MkConfig(TRUE, {}, {}), <<ShardOne, PartialBin>>),
      WeightDir(MkConfig(FALSE, {}, {}), <<ProjectorBin, ShardOne>>),
      WeightDir(MkConfig(FALSE, {0}, {"default"}), <<PartialBin, ProjectorBin>>),
      WeightDir(MkConfig(FALSE, {-(NumHiddenStates + 1)}, {"cls_patch"}),
                <<ProjectorBin, PartialBin>>),
      WeightDir(MkConfig(FALSE, {}, {"cls_patch"}), <<ProjectorBin>>),
      WeightDir(MkConfig(FALSE, {}, {}), <<PartialBin>>) }

\* the directories a caller hands to a loading strategy directly: one with
\* all four projector tensors in either format, one with three in a .bin
DirectDirs ==
    { WeightDir(MkConfig(TRUE, {}, {}), <<ShardOne, ShardTwo, ProjectorBin>>),
      WeightDir(MkConfig(FALSE, {}, {}), <<PartialBin>>) }

\* -------------------------------------------------------------- tensors
\* d.get_tensor(k).half() / v.half() of a tensor read to the cpu
Tensor(f, k) == [file |-> f.name, key |-> k, dtype |-> "float16", device |-> "cpu"]

\* tensor.cuda()
ToCuda(t) == [t EXCEPT !.device = "cuda"]

\* ---------------------------------------------------------------- errors
AttributeError(name) ==
    [exception |-> "AttributeError",
     format |-> "'LlavaVisionModel' object has no attribute '{}'",
     args |-> <<name>>]

AssertionError == [exception |-> "AssertionError", format |-> "", args |-> << >>]

IndexError == [exception |-> "IndexError", format |-> "tuple index out of range", args |-> << >>]

KeyError(key) == [exception |-> "KeyError", format |-> "{}", args |-> <<key>>]

\* line 136: no shared memory block is stored under the uuid's name
FileNotFoundError(uuid) ==
    [exception |-> "FileNotFoundError",
     format |-> "No such file or directory: '{}'", args |-> <<uuid>>]

\* line 137: the stored bytes are not an image
UnidentifiedImageError(uuid) ==
    [exception |-> "UnidentifiedImageError",
     format |-> "cannot identify image file {}", args |-> <<uuid>>]

\* line 138: the image processor rejects the decoded image
PreprocessError(uuid) ==
    [exception |-> "ValueError", format |-> "Invalid image {}", args |-> <<uuid>>]

\* LlavaVisionModel.__init__: no attribute is assigned; the fields hold
\* placeholders that are read only once the attribute is in attrs
NewSelf ==
    [attrs |-> {},
     select_layer |-> 0, select_feature |-> "", image_processor |-> "",
     vision_tower |-> [model |-> "", dtype |-> "", device |-> "", requires_grad |-> TRUE],
     projector_weights |-> << >>, device |-> ""]

LoadedAttrs ==
    {"select_layer", "select_feature", "image_processor", "vision_tower", "projector_weights"}

\* --------------------------------------------------------- load_hf_model
\* lines 60-68: one key of one safetensors file
hf_collect_key(pw, f, k) ==
    LET pw1 == IF Contains(k, Linear1)
               THEN Put(pw, Replace(k, Linear1, Projector0), Tensor(f, k))
               ELSE pw
    IN IF Contains(k, Linear2)
       THEN Put(pw1, Replace(k, Linear2, Projector2), Tensor(f, k))
       ELSE pw1

RECURSIVE hf_collect_keys(_, _, _)
hf_collect_keys(pw, f, ks) ==
    IF ks = << >> THEN pw
    ELSE hf_collect_keys(hf_collect_key(pw, f, Head(ks)), f, Tail(ks))

\* lines 57-68: the scan over os.listdir(weight_dir)
RECURSIVE hf_scan(_, _)
hf_scan(pw, files) ==
    IF files = << >> THEN pw
    ELSE IF EndsWith(Head(files).name, SafetensorsExt)
         THEN hf_scan(hf_collect_keys(pw, Head(files), Head(files).keys), Tail(files))
         ELSE hf_scan(pw, Tail(files))

\* the files a scan opens: those of the listing whose name ends with ext
scanned(files, ext) ==
    {files[i].name : i \in {j \in DOMAIN files : EndsWith(files[j].name, ext)}}

\* line 42: the config argument is replaced by the one AutoConfig reads
\* from config.json of weight_dir; a key the file leaves out has the
\* library's value, -2 and "default".
AutoConfig(weight_dir) ==
    [vision_feature_layer |-> Get(weight_dir.config, "vision_feature_layer", -2),
     vision_feature_select_strategy |->
        Get(weight_dir.config, "vision_feature_select_strategy", "default")]

load_hf_model(slf, config, weight_dir) ==
    LET cfg == AutoConfig(weight_dir)
    IN [self |-> [slf EXCEPT
                 !.attrs = @ \cup LoadedAttrs,
                 !.select_layer = cfg.vision_feature_layer,
                 !.select_feature = cfg.vision_feature_select_strategy,
                 !.image_processor = "AutoProcessor.image_processor",
                 !.vision_tower = [model |-> "LlavaForConditionalGeneration.vision_tower",
                                   dtype |-> "float16", device |-> "cpu",
                                   requires_grad |-> TRUE],
                 !.projector_weights = hf_scan(<< >>, weight_dir.files)],
        opened |-> scanned(weight_dir.files, SafetensorsExt)]

\* -------------------------------------------------------- load_bin_model
\* lines 92-94: one key of one bin file
bin_collect_key(pw, f, k) ==
    IF Contains(k, ProjectorNamespace) THEN Put(pw, k, Tensor(f, k)) ELSE pw

RECURSIVE bin_collect_keys(_, _, _)
bin_collect_keys(pw, f, ks) ==
    IF ks = << >> THEN pw
    ELSE bin_collect_keys(bin_collect_key(pw, f, Head(ks)), f, Tail(ks))

\* lines 89-94
RECURSIVE bin_scan(_, _)
bin_scan(pw, files) ==
    IF files = << >> THEN pw
    ELSE IF EndsWith(Head(files).name, BinExt)
         THEN bin_scan(bin_collect_keys(pw, Head(files), Head(files).keys), Tail(files))
         ELSE bin_scan(pw, Tail(files))

\* The path the CLIP tower is fetched from (lines 76-80) only selects what
\* the external loader reads; the tower is recorded by its class.
load_bin_model(slf, config, weight_dir) ==
    [self |-> [slf EXCEPT
                 !.attrs = @ \cup LoadedAttrs,
                 !.select_layer = Get(config, "mm_vision_select_layer", -2),
                 !.select_feature = Get(config, "mm_vision_select_feature", "patch"),
                 !.image_processor = "CLIPImageProcessor",
                 !.vision_tower = [model |-> "CLIPVisionModel",
                                   dtype |-> "float16", device |-> "cpu",
                                   requires_grad |-> TRUE],
                 !.projector_weights = bin_scan(<< >>, weight_dir.files)],
     opened |-> scanned(weight_dir.files, BinExt)]

\* ------------------------------------------------------------ load_model
\* line 26
is_hf_config_inverted(config) == "text_config" \notin DOMAIN config

is_hf_config(config) == "text_config" \in DOMAIN config

\* lines 34-37
projector_asserts_three(pw) ==
    /\ K0W \in DOMAIN pw
    /\ K0B \in DOMAIN pw
    /\ K2W \in DOMAIN pw

projector_asserts(pw) ==
    /\ K0W \in DOMAIN pw
    /\ K0B \in DOMAIN pw
    /\ K2W \in DOMAIN pw
    /\ K2B \in DOMAIN pw

\* The attributes are assigned before the assertions run, so a failed load
\* leaves them assigned; `raised` holds the error when the call does not return.
load_model(slf, weight_dir) ==
    LET config == weight_dir.config
        hf == is_hf_config(config)
        r == IF hf THEN load_hf_model(slf, config, weight_dir)
                   ELSE load_bin_model(slf, config, weight_dir)
        s1 == [r.self EXCEPT !.vision_tower.requires_grad = FALSE,
                             !.device = "cpu",
                             !.attrs = @ \cup {"device"}]
    IN [self |-> s1,
        ran |-> IF hf THEN <<"load_hf_model">> ELSE <<"load_bin_model">>,
        opened |-> r.opened,
        raised |-> IF projector_asserts(s1.projector_weights)
                   THEN << >> ELSE <<AssertionError>>]

\* ------------------------------------------------------------------ cuda
\* cuda() that moves the tower and forgets the weights
cuda_tower_only(slf) ==
    IF "vision_tower" \notin slf.attrs
    THEN [self |-> slf, raised |-> <<AttributeError("vision_tower")>>]
    ELSE [self |-> [slf EXCEPT !.vision_tower = ToCuda(@)], raised |-> << >>]

\* line 97 reads self.vision_tower before anything is assigned
cuda(slf) ==
    IF "vision_tower" \notin slf.attrs
    THEN [self |-> slf, raised |-> <<AttributeError("vision_tower")>>]
    ELSE [self |-> [slf EXCEPT !.vision_tower = ToCuda(@),
                               !.projector_weights = [k \in DOMAIN @ |-> ToCuda(@[k])]],
          raised |-> << >>]

\* --------------------------------------------------------------- forward
\* t[i] on a tuple of n entries: the position counted from 0, or IndexError
PyIndex(n, i) ==
    IF i >= n \/ i < -n
    THEN [raised |-> <<IndexError>>, index |-> 0]
    ELSE [raised |-> << >>, index |-> IF i < 0 THEN i + n ELSE i]

\* line 105: the hidden states the tower computes for one row of the batch,
\* indexed 0..NumHiddenStates-1; each is SeqLen tokens, the class token first
hidden_states(slf, row) ==
    [l \in 0..(NumHiddenStates - 1) |->
        [p \in 1..SeqLen |->
            [tower |-> slf.vision_tower.model, input |-> row, layer |-> l, pos |-> p - 1]]]

\* lines 107-108 on one row: x[:, 1:]
select_tokens_patch_only(select_feature, tokens) ==
    IF select_feature = "patch" THEN Tail(tokens) ELSE tokens

select_tokens(select_feature, tokens) ==
    IF select_feature = "patch" \/ select_feature = "default"
    THEN Tail(tokens) ELSE tokens

\* lines 113-123: the keys read from projector_weights, in the order read
ProjectorReads == <<K0W, K0B, K2W, K2B>>

\* the first key read that the mapping lacks raises KeyError
missing_reads(pw) == {i \in 1..Len(ProjectorReads) : ProjectorReads[i] \notin DOMAIN pw}

\* lines 113-123 on one token: linear 0, gelu, linear 2
mm_project(pw, token) ==
    [x |-> token,
     linear_0 |-> [weight |-> pw[K0W], bias |-> pw[K0B]],
     act |-> "gelu",
     linear_2 |-> [weight |-> pw[K2W], bias |-> pw[K2B]]]

\* line 104 on one row: x.half().cuda()
half_cuda(row) == [row EXCEPT !.dtype = "float16", !.device = "cuda"]

\* The value has one entry per row of x, in order (B), each a sequence of
\* projected tokens (L).  Lines 105, 106, 107 and 115 read self.vision_tower,
\* select_layer, select_feature and projector_weights in that order and
\* raise AttributeError for one never assigned; line 106 raises IndexError
\* when select_layer is outside the tuple of hidden states, lines 115-122
\* raise KeyError for a projector key the mapping lacks.
forward(slf, x) ==
    LET at == PyIndex(NumHiddenStates, slf.select_layer)
        miss == missing_reads(slf.projector_weights)
    IN IF "vision_tower" \notin slf.attrs
       THEN [raised |-> <<AttributeError("vision_tower")>>, value |-> << >>]
       ELSE IF "select_layer" \notin slf.attrs
       THEN [raised |-> <<AttributeError("select_layer")>>, value |-> << >>]
       ELSE IF at.raised # << >> THEN [raised |-> at.raised, value |-> << >>]
       ELSE IF "select_feature" \notin slf.attrs
       THEN [raised |-> <<AttributeError("select_feature")>>, value |-> << >>]
       ELSE IF "projector_weights" \notin slf.attrs
       THEN [raised |-> <<AttributeError("projector_weights")>>, value |-> << >>]
       ELSE IF miss # {}
       THEN [raised |-> <<KeyError(ProjectorReads[CHOOSE i \in miss : \A j \in miss : i <= j])>>,
             value |-> << >>]
       ELSE [raised |-> << >>,
             value |->
                [b \in 1..Len(x) |->
                    LET hs == hidden_states(slf, half_cuda(x[b]))
                        kept == select_tokens(slf.select_feature, hs[at.index])
                    IN [t \in 1..Len(kept) |-> mm_project(slf.projector_weights, kept[t])]]]

\* ---------------------------------------------------------------- encode
UUIDs == {"imgA", "imgB"}

ImageItem(uuid) == [cls |-> "ImageItem", uuid |-> uuid]

\* items of other types a caller may pass by mistake
OtherItems == {[cls |-> "str", value |-> "cat.png"]}

Items == {ImageItem(u) : u \in UUIDs} \cup OtherItems

ImageLists == UNION {[1..n -> Items] : n \in 0..MaxImages}

\* what the shared memory may hold under a uuid: nothing, bytes that are
\* not an image, an image the processor rejects, or an image that
\* preprocesses to some number of tiles
Missing == [kind |-> "missing", tiles |-> 0]

Corrupt == [kind |-> "corrupt", tiles |-> 0]

Unprocessable == [kind |-> "unprocessable", tiles |-> 0]

Stored(tiles) == [kind |-> "image", tiles |-> tiles]

ShmEntries == {Missing, Corrupt, Unprocessable} \cup {Stored(c) : c \in 1..MaxTiles}

\* line 136: read_shm(get_shm_name_data(img.uuid))
read_shm(uuid) ==
    IF shm[uuid].kind = "missing"
    THEN [raised |-> <<FileNotFoundError(uuid)>>, value |-> Missing]
    ELSE [raised |-> << >>, value |-> shm[uuid]]

\* line 137: Image.open(BytesIO(image_data)).convert("RGB")
Image_open(uuid, image_data) ==
    IF image_data.kind = "corrupt"
    THEN [raised |-> <<UnidentifiedImageError(uuid)>>, value |-> Corrupt]
    ELSE [raised |-> << >>, value |-> image_data]

\* line 138: image_processor.preprocess(image_data, return_tensors="pt")
\* ["pixel_values"], one row per tile of the image
preprocess(slf, uuid, image_data) ==
    IF image_data.kind = "unprocessable"
    THEN [raised |-> <<PreprocessError(uuid)>>, value |-> << >>]
    ELSE [raised |-> << >>,
          value |->
            [j \in 1..image_data.tiles |->
                [processor |-> slf.image_processor, image |-> uuid,
                 tiles |-> image_data.tiles, tile |-> j,
                 dtype |-> "float32", device |-> "cpu"]]]

\* lines 136-138 in the order the statements run: the read, the decode,
\* the read of self.image_processor (which raises on an adapter nothing
\* was loaded into), the preprocess call
pixel_values(slf, uuid) ==
    LET data == read_shm(uuid)
    IN IF data.raised # << >> THEN [raised |-> data.raised, value |-> << >>]
       ELSE LET image == Image_open(uuid, data.value)
            IN IF image.raised # << >> THEN [raised |-> image.raised, value |-> << >>]
               ELSE IF "image_processor" \notin slf.attrs
                    THEN [raised |-> <<AttributeError("image_processor")>>,
                          value |-> << >>]
                    ELSE preprocess(slf, uuid, image.value)

\* valid_id carried over from the ranges the previous call returned
valid_id_leaked ==
    IF lastOp = "encode" /\ ret.kind = "tuple"
    THEN ret.value[3][Len(ret.value[3])][2] ELSE 0

\* line 130
valid_id_init == 0

\* lines 128-131
encode_locals ==
    [img_tensors |-> << >>, uuids |-> << >>, valid_id |-> valid_id_init,
     valid_ids |-> << >>, raised |-> << >>]

\* line 141
UnsupportedInput(img) ==
    [exception |-> "Exception",
     format |-> "Unsupport input types: {} for {}",
     args |-> <<img.cls, img>>]

\* lines 134-145 with the range end mistaken for the tile count
encode_body_count_as_end(slf, st, img) ==
    IF img.cls = "ImageItem"
    THEN LET t == pixel_values(slf, img.uuid)
             cur_num == Len(t.value)
         IN IF t.raised # << >>
            THEN [st EXCEPT !.uuids = Append(@, img.uuid), !.raised = t.raised]
            ELSE [st EXCEPT !.uuids = Append(@, img.uuid),
                            !.img_tensors = Append(@, t.value),
                            !.valid_ids = Append(@, <<st.valid_id, cur_num>>),
                            !.valid_id = @ + cur_num]
    ELSE [st EXCEPT !.raised = <<UnsupportedInput(img)>>]

\* lines 134-145 with the unsupported item skipped instead of raised
encode_body_skip_other(slf, st, img) ==
    IF img.cls = "ImageItem"
    THEN LET t == pixel_values(slf, img.uuid)
             cur_num == Len(t.value)
         IN IF t.raised # << >>
            THEN [st EXCEPT !.uuids = Append(@, img.uuid), !.raised = t.raised]
            ELSE [st EXCEPT !.uuids = Append(@, img.uuid),
                            !.img_tensors = Append(@, t.value),
                            !.valid_ids = Append(@, <<st.valid_id, st.valid_id + cur_num>>),
                            !.valid_id = @ + cur_num]
    ELSE st

\* lines 134-145: one iteration of the loop; a raise at lines 136-138
\* leaves the uuid appended at line 135 and nothing else
encode_body(slf, st, img) ==
    IF img.cls = "ImageItem"
    THEN LET t == pixel_values(slf, img.uuid)
             cur_num == Len(t.value)
         IN IF t.raised # << >>
            THEN [st EXCEPT !.uuids = Append(@, img.uuid), !.raised = t.raised]
            ELSE [st EXCEPT !.uuids = Append(@, img.uuid),
                            !.img_tensors = Append(@, t.value),
                            !.valid_ids = Append(@, <<st.valid_id, st.valid_id + cur_num>>),
                            !.valid_id = @ + cur_num]
    ELSE [st EXCEPT !.raised = <<UnsupportedInput(img)>>]

\* lines 133-145: the loop; a raise leaves it at once
RECURSIVE encode_loop(_, _, _)
encode_loop(slf, st, images) ==
    IF images = << >> \/ st.raised # << >> THEN st
    ELSE encode_loop(slf, encode_body(slf, st, Head(images)), Tail(images))

\* torch.cat that puts the last tensor first
RECURSIVE torch_cat_reversed(_)
torch_cat_reversed(tensors) ==
    IF tensors = << >> THEN << >>
    ELSE torch_cat_reversed(Tail(tensors)) \o Head(tensors)

\* line 150: torch.cat(img_tensors, dim=0)
RECURSIVE torch_cat(_)
torch_cat(tensors) ==
    IF tensors = << >> THEN << >>
    ELSE Head(tensors) \o torch_cat(Tail(tensors))

\* lines 147-153 with the emptiness test off by one
encode_return_none_for_one(slf, st) ==
    IF Len(st.img_tensors) <= 1
    THEN [kind |-> "None", forward_log |-> << >>]
    ELSE LET img == torch_cat(st.img_tensors)
             all_img_embeds == forward(slf, img)
         IN IF all_img_embeds.raised # << >>
            THEN [kind |-> "raise", error |-> all_img_embeds.raised[1],
                  forward_log |-> <<img>>]
            ELSE [kind |-> "tuple",
                  value |-> <<all_img_embeds.value, st.uuids, st.valid_ids>>,
                  forward_log |-> <<img>>]

\* lines 147-153; forward_log lists the batches forward was called on
encode_return(slf, st) ==
    IF Len(st.img_tensors) <= 0
    THEN [kind |-> "None", forward_log |-> << >>]
    ELSE LET img == torch_cat(st.img_tensors)
             all_img_embeds == forward(slf, img)
         IN IF all_img_embeds.raised # << >>
            THEN [kind |-> "raise", error |-> all_img_embeds.raised[1],
                  forward_log |-> <<img>>]
            ELSE [kind |-> "tuple",
                  value |-> <<all_img_embeds.value, st.uuids, st.valid_ids>>,
                  forward_log |-> <<img>>]

encode(slf, images) ==
    LET st == encode_loop(slf, encode_locals, images)
    IN IF st.raised # << >>
       THEN [kind |-> "raise", error |-> st.raised[1], forward_log |-> << >>]
       ELSE encode_return(slf, st)

\* ---------------------------------------------------------- state machine
NoRet == [kind |-> "none"]

\* what a load call hands back: None, or the error it raised
LoadRet(raised, ran, opened) ==
    IF raised = << >>
    THEN [kind |-> "None", ran |-> ran, opened |-> opened]
    ELSE [kind |-> "raise", error |-> raised[1], ran |-> ran, opened |-> opened]

Init ==
    /\ self = NewSelf
    /\ shm \in [UUIDs -> ShmEntries]
    /\ lastOp = "init"
    /\ args = << >>
    /\ ret = NoRet
    /\ again = FALSE

\* model.load_model(weight_dir), on a new adapter or again on a used one
LoadModel(weight_dir) ==
    LET r == load_model(self, weight_dir)
    IN /\ self' = r.self
       /\ lastOp' = "load_model"
       /\ args' = <<weight_dir>>
       /\ ret' = LoadRet(r.raised, r.ran, r.opened)
       /\ again' = FALSE
       /\ UNCHANGED shm

\* model.load_hf_model(config, weight_dir) called directly: no assertion runs
LoadHfModel(weight_dir) ==
    LET r == load_hf_model(self, weight_dir.config, weight_dir)
    IN /\ self' = r.self
       /\ lastOp' = "load_hf_model"
       /\ args' = <<weight_dir.config, weight_dir>>
       /\ ret' = LoadRet(<< >>, <<"load_hf_model">>, r.opened)
       /\ again' = FALSE
       /\ UNCHANGED shm

\* model.load_bin_model(config, weight_dir) called directly: no assertion runs
LoadBinModel(weight_dir) ==
    LET r == load_bin_model(self, weight_dir.config, weight_dir)
    IN /\ self' = r.self
       /\ lastOp' = "load_bin_model"
       /\ args' = <<weight_dir.config, weight_dir>>
       /\ ret' = LoadRet(<< >>, <<"load_bin_model">>, r.opened)
       /\ again' = FALSE
       /\ UNCHANGED shm

\* model.cuda()
Cuda ==
    LET r == cuda(self)
    IN /\ self' = r.self
       /\ lastOp' = "cuda"
       /\ args' = <<self>>
       /\ ret' = IF r.raised = << >> THEN [kind |-> "self"]
                 ELSE [kind |-> "raise", error |-> r.raised[1]]
       /\ again' = FALSE
       /\ UNCHANGED shm

\* model.encode(images)
Encode(images) ==
    /\ lastOp' = "encode"
    /\ args' = <<images>>
    /\ ret' = encode(self, images)
    /\ again' = (lastOp = "encode" /\ ret.kind = "tuple")
    /\ UNCHANGED <<self, shm>>

\* the upstream component changes what is stored under a uuid
StoreImage(uuid, entry) ==
    /\ shm[uuid] # entry
    /\ shm' = [shm EXCEPT ![uuid] = entry]
    /\ lastOp' = "store"
    /\ args' = <<uuid, entry>>
    /\ ret' = NoRet
    /\ again' = FALSE
    /\ UNCHANGED self

Next ==
    \/ \E weight_dir \in WeightDirs : LoadModel(weight_dir)
    \/ \E weight_dir \in DirectDirs : LoadHfModel(weight_dir)
    \/ \E weight_dir \in DirectDirs : LoadBinModel(weight_dir)
    \/ Cuda
    \/ \E images \in ImageLists : Encode(images)
    \/ \E uuid \in UUIDs, entry \in ShmEntries : StoreImage(uuid, entry)

Spec == Init /\ [][Next]_vars

\* ================================================================ claims
\* what the last encode call was given and what it returned
Images == args[1]
Embeds == ret.value[1]
Uuids == ret.value[2]
ValidRanges == ret.value[3]
EncodeReturned == lastOp = "encode" /\ ret.kind = "tuple"

\* c_1 + ... + c_i for the images of the last call
RECURSIVE TilesUpTo(_, _)
TilesUpTo(images, i) ==
    IF i = 0 THEN 0 ELSE TilesUpTo(images, i - 1) + shm[images[i].uuid].tiles

\* C1: a successful encode of n images returns n uuids and n ranges, with
\* uuids[i] the uuid of images[i] (input order, duplicates kept) and
\* valid_ranges[i] = [c_1+...+c_(i-1), c_1+...+c_i], c_i the tile count of
\* image i; the first range starts at 0 and each starts where the previous ends.
C1_RangesFollowTileCounts ==
    EncodeReturned =>
        /\ Len(Uuids) = Len(Images)
        /\ Len(ValidRanges) = Len(Images)
        /\ \A i \in 1..Len(Images) :
            /\ Uuids[i] = Images[i].uuid
            /\ ValidRanges[i] = <<TilesUpTo(Images, i - 1), TilesUpTo(Images, i)>>

\* tile counts 1 and 2 were encoded and gave [[0,1],[1,3]]
C1_Witness ==
    /\ EncodeReturned
    /\ Len(Images) = 2
    /\ shm[Images[1].uuid] = Stored(1)
    /\ shm[Images[2].uuid] = Stored(2)
    /\ ValidRanges = << <<0, 1>>, <<1, 3>> >>

IsOther(images, i) == images[i].cls # "ImageItem"
HasOther(images) == \E i \in 1..Len(images) : IsOther(images, i)
FirstOther(images) ==
    CHOOSE i \in 1..Len(images) :
        IsOther(images, i) /\ \A j \in 1..(i - 1) : ~IsOther(images, j)
NamesItem(error, img) ==
    error.exception = "Exception" /\ error.args = <<img.cls, img>>

\* C2 as stated: when an item of the sequence, at any position, is not an
\* ImageItem, encode raises an error that names that item's type and value;
\* the call returns nothing and forward is not run.
C2_OtherItemRaises ==
    (lastOp = "encode" /\ HasOther(Images)) =>
        /\ ret.kind = "raise"
        /\ NamesItem(ret.error, Images[FirstOther(Images)])
        /\ "value" \notin DOMAIN ret
        /\ ret.forward_log = << >>

\* image item i of the call cannot be processed: lines 136-138 raise on it
Fails(images, i) ==
    /\ ~IsOther(images, i)
    /\ \/ shm[images[i].uuid].kind # "image"
       \/ "image_processor" \notin self.attrs

\* the error lines 136-138 raise on such an item, by what stops it first
FailureOf(img) ==
    CASE shm[img.uuid].kind = "missing" -> FileNotFoundError(img.uuid)
      [] shm[img.uuid].kind = "corrupt" -> UnidentifiedImageError(img.uuid)
      [] OTHER -> IF "image_processor" \notin self.attrs
                  THEN AttributeError("image_processor")
                  ELSE PreprocessError(img.uuid)

\* the image items before position k that cannot be processed
FailingBefore(images, k) == {j \in 1..(k - 1) : Fails(images, j)}

FirstOf(S) == CHOOSE j \in S : \A i \in S : j <= i

\* C2 amended: such a call raises, returns nothing and does not run forward;
\* the error names the first offending item's type and value when every
\* ImageItem before that item is read, decoded and preprocessed without
\* error; otherwise the error of the first ImageItem that is not (no shared
\* memory under its uuid, bytes that are no image, no image processor on
\* the adapter, an image the processor rejects) is the one raised.
C2_OtherItemRaisesUnlessImageFails ==
    (lastOp = "encode" /\ HasOther(Images)) =>
        LET k == FirstOther(Images)
            failing == FailingBefore(Images, k)
        IN /\ ret.kind = "raise"
           /\ "value" \notin DOMAIN ret
           /\ ret.forward_log = << >>
           /\ IF failing = {}
              THEN NamesItem(ret.error, Images[k])
              ELSE ret.error = FailureOf(Images[FirstOf(failing)])

\* on a loaded adapter the offending item came after an image item that
\* was processed, and encode raised the error naming it
C2_Witness ==
    /\ lastOp = "encode"
    /\ "image_processor" \in self.attrs
    /\ Len(Images) = 2
    /\ ~IsOther(Images, 1)
    /\ shm[Images[1].uuid].kind = "image"
    /\ IsOther(Images, 2)
    /\ ret.kind = "raise"
    /\ NamesItem(ret.error, Images[2])

\* C3: encode of the empty sequence returns None; encode of a non-empty
\* sequence of image items that it processes without error returns a
\* 3-tuple; None is returned in no other case.
C3_NoneOnlyForEmpty ==
    lastOp = "encode" =>
        /\ Images = << >> => ret.kind = "None"
        /\ (Images # << >> /\ ~HasOther(Images) /\ ret.kind # "raise") =>
                (ret.kind = "tuple" /\ Len(ret.value) = 3)
        /\ ret.kind = "None" => Images = << >>

\* encode was called on the empty sequence and returned None
C3_Witness == lastOp = "encode" /\ Images = << >> /\ ret.kind = "None"

\* C4: when load_model returns, projector_weights has the four canonical
\* keys; when the loaded mapping lacks one of them, load_model fails
\* (AssertionError) instead of returning.
C4_FourKeysOrFail ==
    lastOp = "load_model" =>
        /\ ret.kind = "None" => CanonicalKeys \subseteq DOMAIN self.projector_weights
        /\ ~(CanonicalKeys \subseteq DOMAIN self.projector_weights) =>
                (ret.kind = "raise" /\ ret.error = AssertionError)

\* a checkpoint that yields three of the four keys made load_model fail
C4_Witness ==
    /\ lastOp = "load_model"
    /\ ret.kind = "raise"
    /\ Cardinality(CanonicalKeys \cap DOMAIN self.projector_weights) = 3

\* C5: load_model runs exactly one loading strategy: load_hf_model, opening
\* the *.safetensors files, iff config.json has the key "text_config";
\* load_bin_model, opening the *.bin files, otherwise.
C5_OneStrategyByConfig ==
    lastOp = "load_model" =>
        IF "text_config" \in DOMAIN args[1].config
        THEN /\ ret.ran = <<"load_hf_model">>
             /\ ret.opened = scanned(args[1].files, SafetensorsExt)
             /\ self.image_processor = "AutoProcessor.image_processor"
        ELSE /\ ret.ran = <<"load_bin_model">>
             /\ ret.opened = scanned(args[1].files, BinExt)
             /\ self.image_processor = "CLIPImageProcessor"

\* a directory holding both kinds of file was loaded with a packaged config
C5_Witness ==
    /\ lastOp = "load_model"
    /\ "text_config" \in DOMAIN args[1].config
    /\ scanned(args[1].files, SafetensorsExt) # {}
    /\ scanned(args[1].files, BinExt) # {}
    /\ ret.opened = scanned(args[1].files, SafetensorsExt)

\* positions (0 = class token) of the tokens kept for row b of the output
KeptPositions(b) == [t \in 1..Len(Embeds[b]) |-> Embeds[b][t].x.pos]
AllPositions == [t \in 1..SeqLen |-> t - 1]

\* C6 as stated: "patch" drops exactly the leading token, every other value
\* of select_feature keeps all L tokens.
C6_OnlyPatchDrops ==
    EncodeReturned =>
        \A b \in 1..Len(Embeds) :
            KeptPositions(b) =
                IF self.select_feature = "patch" THEN Tail(AllPositions) ELSE AllPositions

\* C6 amended: "patch" and "default" drop exactly the leading token (tokens
\* 1..L-1 kept in order), every other value keeps all L tokens.
C6_PatchOrDefaultDrops ==
    EncodeReturned =>
        \A b \in 1..Len(Embeds) :
            KeptPositions(b) =
                IF self.select_feature \in {"patch", "default"}
                THEN Tail(AllPositions) ELSE AllPositions

\* a forward pass ran with select_feature "default" and dropped the class token
C6_Witness ==
    /\ EncodeReturned
    /\ self.select_feature = "default"
    /\ Len(Embeds[1]) = SeqLen - 1

OnCuda(slf) ==
    /\ slf.vision_tower.device = "cuda"
    /\ \A k \in DOMAIN slf.projector_weights : slf.projector_weights[k].device = "cuda"

\* C7: cuda() puts the tower and every projector weight the adapter owns on
\* the accelerator, keeps the key set, and a second call leaves the adapter,
\* recorded device included, as the first call left it.
C7_CudaMovesAllIdempotent ==
    lastOp = "cuda" =>
        LET before == args[1]
        IN /\ self.device = before.device
           /\ OnCuda(before) => self = before
           /\ IF ret.kind = "self"
              THEN /\ self.vision_tower = [before.vision_tower EXCEPT !.device = "cuda"]
                   /\ DOMAIN self.projector_weights = DOMAIN before.projector_weights
                   /\ \A k \in DOMAIN self.projector_weights :
                        self.projector_weights[k] =
                            [before.projector_weights[k] EXCEPT !.device = "cuda"]
              ELSE before.attrs = {} /\ self = before

\* cuda() was called on an adapter that an earlier cuda() had already moved
C7_Witness ==
    /\ lastOp = "cuda"
    /\ ret.kind = "self"
    /\ OnCuda(args[1])
    /\ DOMAIN self.projector_weights # {}
    /\ self = args[1]

ProjectorKeysOf(f) ==
    {f.keys[i] : i \in {j \in DOMAIN f.keys :
        Contains(f.keys[j], Linear1) \/ Contains(f.keys[j], Linear2)}}

\* the canonical name the claim assigns to a projector key of a checkpoint
CanonicalNameOf(k) ==
    (IF Contains(k, Linear1) THEN Projector0 ELSE Projector2)
        \o SubSeq(k, Len(k) - 1, Len(k))

\* C8: in the packaged strategy every safetensors key that contains
\* multi_modal_projector.linear_1 or .linear_2 is stored under one of the
\* four canonical names (linear_1 as layer 0, linear_2 as layer 2) whatever
\* prefix it carries; nothing else is stored.
C8_StoredUnderCanonicalNames ==
    (lastOp \in {"load_model", "load_hf_model"} /\ ret.ran = <<"load_hf_model">>) =>
        LET files == args[Len(args)].files
        IN /\ DOMAIN self.projector_weights \subseteq CanonicalKeys
           /\ \A i \in DOMAIN files :
                EndsWith(files[i].name, SafetensorsExt) =>
                    \A k \in ProjectorKeysOf(files[i]) :
                        CanonicalNameOf(k) \in DOMAIN self.projector_weights

\* the rows image i contributes, as the preprocessor cuts them
RowsOf(i) == pixel_values(self, Images[i].uuid).value

\* a successful encode calls forward once, on the rows of all images in
\* input order; the embeddings have one entry per tile, and entries
\* start_i+1..end_i are the outputs for the tiles of image i
OneForwardOverAllTiles ==
    /\ Len(ret.forward_log) = 1
    /\ Len(ret.forward_log[1]) = TilesUpTo(Images, Len(Images))
    /\ Len(Embeds) = ValidRanges[Len(ValidRanges)][2]
    /\ \A i \in 1..Len(Images) :
        \A j \in 1..Len(RowsOf(i)) :
            /\ ret.forward_log[1][ValidRanges[i][1] + j] = RowsOf(i)[j]
            /\ \A t \in 1..Len(Embeds[ValidRanges[i][1] + j]) :
                Embeds[ValidRanges[i][1] + j][t].x.input = half_cuda(RowsOf(i)[j])

\* C9 as stated: a successful encode runs forward once over all tiles in
\* input order, with embeddings rows start_i..end_i belonging to image i;
\* a call that returns None or raises runs forward zero times.
C9_NoForwardWhenRaised ==
    lastOp = "encode" =>
        /\ ret.kind \in {"None", "raise"} => ret.forward_log = << >>
        /\ ret.kind = "tuple" => OneForwardOverAllTiles

\* C9 amended: the same for a successful call; a call that returns None, or
\* that raises in the loop over the items, runs forward zero times; a call
\* that raises from inside forward (select_layer outside the hidden states,
\* a projector key missing) has called it once, on the rows of all images
\* in input order.
C9_OneForwardOverAllTiles ==
    lastOp = "encode" =>
        /\ ret.kind = "None" => ret.forward_log = << >>
        /\ ret.kind = "raise" =>
            IF ret.error.exception \in {"IndexError", "KeyError"}
            THEN /\ Len(ret.forward_log) = 1
                 /\ ~HasOther(Images)
                 /\ Len(ret.forward_log[1]) = TilesUpTo(Images, Len(Images))
                 /\ \A i \in 1..Len(Images) :
                        \A j \in 1..Len(RowsOf(i)) :
                            ret.forward_log[1][TilesUpTo(Images, i - 1) + j] = RowsOf(i)[j]
            ELSE ret.forward_log = << >>
        /\ ret.kind = "tuple" => OneForwardOverAllTiles

\* two different images, of one and of two tiles, went through one forward call
C9_Witness ==
    /\ EncodeReturned
    /\ Len(Images) = 2
    /\ Images[1].uuid # Images[2].uuid
    /\ shm[Images[1].uuid] # shm[Images[2].uuid]
    /\ Len(ret.forward_log) = 1
    /\ Len(Embeds) = 3

\* C10: an encode call, whatever it returns or raises, leaves select_layer,
\* select_feature, projector_weights and the recorded device as they were;
\* its uuids and ranges are those of its own input, the first range
\* starting at 0 whatever earlier calls returned.
C10_EncodeKeepsNoState ==
    [][lastOp' = "encode" =>
        /\ self'.select_layer = self.select_layer
        /\ self'.select_feature = self.select_feature
        /\ self'.projector_weights = self.projector_weights
        /\ self'.device = self.device
        /\ self'.attrs = self.attrs
        /\ ret'.kind = "tuple" =>
            /\ ret'.value[3][1][1] = 0
            /\ \A i \in 1..Len(args'[1]) :
                /\ ret'.value[2][i] = args'[1][i].uuid
                /\ ret'.value[3][i][2] - ret'.value[3][i][1] = shm'[args'[1][i].uuid].tiles]_vars

\* an encode call that followed an encode call that returned ranges
\* returned ranges starting at 0
C10_Witness ==
    /\ EncodeReturned
    /\ again
    /\ ValidRanges[1][1] = 0
====
